---- MODULE Spec2Model ----
(***************************************************************************)
(* The desktop-mode application of cosmic-files (examples/desktop.rs):     *)
(* the message loop App::update, App::init, App::rescan_tab and            *)
(* App::update_watcher, as a state machine.                                *)
(*                                                                         *)
(* The loop handles one message at a time.  A handler is one action; it    *)
(* leaves in `last` the message it handled and what it returned (the       *)
(* commands, the metadata reloads, the watch calls), and Return takes the  *)
(* loop back to waiting for the next message.                              *)
(***************************************************************************)
EXTENDS Integers, Sequences, FiniteSets, TLC

VARIABLES
    surface_ids,      \* App.surface_ids: WlOutput -> SurfaceId (NoSurface: no entry)
    surface_names,    \* App.surface_names: SurfaceId -> String
    next_surface_id,  \* the counter behind SurfaceId::unique()
    created_ids,      \* surface ids carried by the get_layer_surface commands so far
    live_surfaces,    \* surfaces created by a command and not destroyed by one
    attached,         \* outputs whose latest notification is Created
    location,         \* App.tab.location
    items_opt,        \* App.tab.items_opt: <<>> is None, <<items>> is Some(items)
    items_from,       \* the location whose scan produced items_opt (<<>>: none yet)
    rescans,          \* the rescans in flight, oldest first, each with its captured location
    newest_delivered, \* the most recently issued rescan has had its result delivered
    watcher_opt,      \* App.watcher_opt: <<>> is None, <<paths>> is Some((watcher, paths))
    watched,          \* the paths registered with the watch backend
    debouncer,        \* the watcher subscription: "starting", "sent", "failed", "adopted"
    pc,               \* the loop: "idle" (waiting for a message) or "handled"
    last,             \* the message just handled and what its handler returned
    channel,          \* the NotifyEvents batches queued in the subscription's channel
    callback          \* the debouncer's callback: where it stands, its input, its batch

vars == <<surface_ids, surface_names, next_surface_id, created_ids, live_surfaces,
          attached, location, items_opt, items_from, rescans, newest_delivered,
          watcher_opt, watched,
          debouncer, pc, last, channel, callback>>

surface_vars == <<surface_ids, surface_names, next_surface_id, created_ids,
                  live_surfaces, attached>>

tab_vars == <<location, items_opt, items_from, rescans, newest_delivered>>

watcher_vars == <<watcher_opt, watched, debouncer>>

subscription_vars == <<channel, callback>>

(***************************************************************************)
(* Bounds of the model.                                                    *)
(***************************************************************************)
\* how many surface identities a run allocates
MaxSurfaceIds == 3
\* how many rescans a run has in flight at once
MaxRescans == 2
\* how many events one NotifyEvents batch carries
MaxBatch == 2

(***************************************************************************)
(* Outputs, surfaces and output names.                                     *)
(***************************************************************************)
Outputs == {"o1", "o2"}

NoSurface == 0

SurfaceIds == 1..MaxSurfaceIds

\* Option<OutputInfo> of OutputEvent::Created: no info, info without a name,
\* or info with a name
OutputInfos == {"NoInfo", "NoName", "DP-1", "HDMI-1"}

OutputNames == {"DP-1", "HDMI-1"}

(***************************************************************************)
(* Paths and locations.  A path is the sequence of its components.         *)
(***************************************************************************)
HomeDir == <<"home">>

DesktopDir == <<"home", "Desktop">>

FileA == <<"home", "Desktop", "a.txt">>

FileB == <<"home", "Desktop", "b.txt">>

FileH == <<"home", "h.txt">>

\* the file that is created while a.txt and b.txt are listed
FileC == <<"home", "Desktop", "c.txt">>

Dirs == {HomeDir, DesktopDir}

Files == {FileA, FileB, FileH}

Paths == Dirs \cup Files

\* Location::Path(path)
LocationPath(path) == [tag |-> "Path", path |-> path]

\* a Location that is no Path (Location::Trash)
LocationTrash == [tag |-> "Trash", path |-> <<>>]

\* Path::starts_with: base is a prefix of p, component by component
StartsWith(p, base) ==
    /\ Len(base) <= Len(p)
    /\ SubSeq(p, 1, Len(base)) = base

\* the entries a scan of directory dir can list
Children(dir) ==
    {f \in Files \cup {FileC} : Len(f) = Len(dir) + 1 /\ StartsWith(f, dir)}

\* the items location.scan() returns when the directory holds `entries`
ScanItems(entries) == {[path |-> p, metadata |-> "m0"] : p \in entries}

\* what fs::metadata(&event_path) returns: an error or the new metadata
MetadataResults == {"Err", "m1"}

ItemPaths(opt) == IF opt = <<>> THEN {} ELSE {it.path : it \in opt[1]}

(***************************************************************************)
(* The record of the last handled message.                                 *)
(***************************************************************************)
NoLast ==
    [msg |-> "none", output |-> "-", info |-> "-", events |-> <<>>, md |-> "-",
     scanned |-> LocationTrash, cmds |-> <<>>, patches |-> <<>>, calls |-> <<>>]

\* the debouncer's callback is not running
CallbackReady == [pc |-> "ready", events_res |-> <<>>, events |-> <<>>]

GetLayerSurface(id, output) ==
    [cmd |-> "get_layer_surface", id |-> id, output |-> output]

DestroyLayerSurface(id) ==
    [cmd |-> "destroy_layer_surface", id |-> id, output |-> "-"]

RescanCmd == [cmd |-> "rescan", id |-> NoSurface, output |-> "-"]

CmdCount(cmds, c) == Cardinality({i \in 1..Len(cmds) : cmds[i].cmd = c})

(***************************************************************************)
(* Init: the state App::init returns.  update_watcher() finds no watcher   *)
(* and does nothing; rescan_tab() starts the first rescan.                 *)
(***************************************************************************)
Init ==
    /\ surface_ids = [o \in Outputs |-> NoSurface]
    /\ surface_names = <<>>
    /\ next_surface_id = 1
    /\ created_ids = {}
    /\ live_surfaces = {}
    /\ attached = {}
    /\ location \in {LocationPath(DesktopDir), LocationPath(HomeDir)}
    /\ items_opt = <<>>
    /\ items_from = <<>>
    /\ rescans = <<location>>
    /\ newest_delivered = FALSE
    /\ watcher_opt = <<>>
    /\ watched = {}
    /\ debouncer = "starting"
    /\ pc = "idle"
    /\ last = NoLast
    /\ channel = <<>>
    /\ callback = CallbackReady

(***************************************************************************)
(* Message::OutputEvent                                                    *)
(***************************************************************************)
\* surface_names after OutputEvent::Created inserted the output's name
NamesAfterCreated(names, surface_id, info) ==
    IF info \in OutputNames
    THEN [s \in DOMAIN names \cup {surface_id} |->
            IF s = surface_id THEN info ELSE names[s]]
    ELSE names

\* OutputCreated, were the surface id kept per output instead of allocated anew
OutputCreatedReusingId(output, info) ==
    /\ pc = "idle"
    /\ next_surface_id <= MaxSurfaceIds
    /\ LET surface_id == IF surface_ids[output] # NoSurface THEN surface_ids[output]
                         ELSE next_surface_id IN
        /\ next_surface_id' = next_surface_id + 1
        /\ surface_ids' = [surface_ids EXCEPT ![output] = surface_id]
        /\ surface_names' = NamesAfterCreated(surface_names, surface_id, info)
        /\ created_ids' = created_ids \cup {surface_id}
        /\ live_surfaces' = live_surfaces \cup {surface_id}
        /\ last' = [NoLast EXCEPT !.msg = "OutputCreated", !.output = output,
                                  !.info = info,
                                  !.cmds = <<GetLayerSurface(surface_id, output)>>]
    /\ attached' = attached \cup {output}
    /\ pc' = "handled"
    /\ UNCHANGED <<tab_vars, watcher_vars>>
    /\ UNCHANGED subscription_vars

\* OutputCreated, were the notification held back while a rescan is in flight
OutputCreatedAfterRescans(output, info) ==
    /\ pc = "idle"
    /\ rescans = <<>>
    /\ next_surface_id <= MaxSurfaceIds
    /\ LET surface_id == next_surface_id IN
        /\ next_surface_id' = next_surface_id + 1
        /\ surface_ids' = [surface_ids EXCEPT ![output] = surface_id]
        /\ surface_names' = NamesAfterCreated(surface_names, surface_id, info)
        /\ created_ids' = created_ids \cup {surface_id}
        /\ live_surfaces' = live_surfaces \cup {surface_id}
        /\ last' = [NoLast EXCEPT !.msg = "OutputCreated", !.output = output,
                                  !.info = info,
                                  !.cmds = <<GetLayerSurface(surface_id, output)>>]
    /\ attached' = attached \cup {output}
    /\ pc' = "handled"
    /\ UNCHANGED <<tab_vars, watcher_vars>>
    /\ UNCHANGED subscription_vars

OutputCreated(output, info) ==
    /\ pc = "idle"
    /\ next_surface_id <= MaxSurfaceIds
    /\ LET surface_id == next_surface_id IN
        /\ next_surface_id' = next_surface_id + 1
        /\ surface_ids' = [surface_ids EXCEPT ![output] = surface_id]
        /\ surface_names' = NamesAfterCreated(surface_names, surface_id, info)
        /\ created_ids' = created_ids \cup {surface_id}
        /\ live_surfaces' = live_surfaces \cup {surface_id}
        /\ last' = [NoLast EXCEPT !.msg = "OutputCreated", !.output = output,
                                  !.info = info,
                                  !.cmds = <<GetLayerSurface(surface_id, output)>>]
    /\ attached' = attached \cup {output}
    /\ pc' = "handled"
    /\ UNCHANGED <<tab_vars, watcher_vars>>
    /\ UNCHANGED subscription_vars

\* OutputRemoved, were the missing entry replaced by a default surface id
\* (unwrap_or_default) and the handler carried on
OutputRemovedUnwrapOrDefault(output) ==
    /\ pc = "idle"
    /\ LET surface_id == surface_ids[output] IN
        /\ surface_ids' = [surface_ids EXCEPT ![output] = NoSurface]
        /\ surface_names' = [s \in DOMAIN surface_names \ {surface_id} |->
                                surface_names[s]]
        /\ live_surfaces' = live_surfaces \ {surface_id}
        /\ last' = [NoLast EXCEPT !.msg = "OutputRemoved", !.output = output,
                                  !.cmds = <<DestroyLayerSurface(surface_id)>>]
    /\ attached' = attached \ {output}
    /\ pc' = "handled"
    /\ UNCHANGED <<next_surface_id, created_ids, tab_vars, watcher_vars>>
    /\ UNCHANGED subscription_vars

OutputRemoved(output) ==
    /\ pc = "idle"
    /\ IF surface_ids[output] # NoSurface
       THEN LET surface_id == surface_ids[output] IN
            /\ surface_ids' = [surface_ids EXCEPT ![output] = NoSurface]
            /\ surface_names' = [s \in DOMAIN surface_names \ {surface_id} |->
                                    surface_names[s]]
            /\ live_surfaces' = live_surfaces \ {surface_id}
            /\ last' = [NoLast EXCEPT !.msg = "OutputRemoved", !.output = output,
                                      !.cmds = <<DestroyLayerSurface(surface_id)>>]
       ELSE /\ UNCHANGED <<surface_ids, surface_names, live_surfaces>>
            /\ last' = [NoLast EXCEPT !.msg = "OutputRemoved", !.output = output]
    /\ attached' = attached \ {output}
    /\ pc' = "handled"
    /\ UNCHANGED <<next_surface_id, created_ids, tab_vars, watcher_vars>>
    /\ UNCHANGED subscription_vars

OutputInfoUpdate(output, info) ==
    /\ pc = "idle"
    /\ last' = [NoLast EXCEPT !.msg = "OutputInfoUpdate", !.output = output,
                              !.info = info]
    /\ pc' = "handled"
    /\ UNCHANGED <<surface_vars, tab_vars, watcher_vars>>
    /\ UNCHANGED subscription_vars

(***************************************************************************)
(* App::rescan_tab: the command captures the location as it is now.        *)
(***************************************************************************)
RescanTab(in_flight, loc) == Append(in_flight, loc)

RemoveAt(seq, i) == SubSeq(seq, 1, i - 1) \o SubSeq(seq, i + 1, Len(seq))

(***************************************************************************)
(* App::update_watcher.  `order` is the order in which old_paths.iter()    *)
(* yields the recorded paths, `fails` the paths whose watch or unwatch     *)
(* call returns an error.  The result is the new watcher_opt, the calls    *)
(* made on the watcher and the backend's registrations after them.         *)
(***************************************************************************)
Orders(S) == {o \in [1..Cardinality(S) -> S] : \A p \in S : \E i \in DOMAIN o : o[i] = p}

WatchCall(op, path) == [op |-> op, path |-> path]

NewPaths(loc) == IF loc.tag = "Path" THEN {loc.path} ELSE {}

\* the unwatch loop, were every recorded path unwatched before the wanted
\* ones are watched (a rebuild instead of a reconciliation)
RECURSIVE UnwatchLoopAll(_, _, _, _)
UnwatchLoopAll(order, i, new_paths, st) ==
    IF i > Len(order) THEN st
    ELSE UnwatchLoopAll(order, i + 1, new_paths,
            [calls |-> Append(st.calls, WatchCall("unwatch", order[i])),
             watched |-> IF order[i] \in st.fails THEN st.watched
                         ELSE st.watched \ {order[i]},
             fails |-> st.fails])

RECURSIVE UnwatchLoop(_, _, _, _)
UnwatchLoop(order, i, new_paths, st) ==
    IF i > Len(order) THEN st
    ELSE LET path == order[i] IN
         IF path \notin new_paths
         THEN UnwatchLoop(order, i + 1, new_paths,
                [calls |-> Append(st.calls, WatchCall("unwatch", path)),
                 watched |-> IF path \in st.fails THEN st.watched
                             ELSE st.watched \ {path},
                 fails |-> st.fails])
         ELSE UnwatchLoop(order, i + 1, new_paths, st)

RECURSIVE WatchLoop(_, _, _, _)
WatchLoop(order, i, old_paths, st) ==
    IF i > Len(order) THEN st
    ELSE LET path == order[i] IN
         IF path \notin old_paths
         THEN WatchLoop(order, i + 1, old_paths,
                [calls |-> Append(st.calls, WatchCall("watch", path)),
                 watched |-> IF path \in st.fails THEN st.watched
                             ELSE st.watched \cup {path},
                 fails |-> st.fails])
         ELSE WatchLoop(order, i + 1, old_paths, st)

UpdateWatcher(opt, loc, registered, order, fails) ==
    IF opt = <<>>
    THEN [watcher_opt |-> opt, calls |-> <<>>, watched |-> registered]
    ELSE LET old_paths == opt[1]
             new_paths == NewPaths(loc)
             st0 == [calls |-> <<>>, watched |-> registered, fails |-> fails]
             st1 == UnwatchLoop(order, 1, new_paths, st0)
             new_order == CHOOSE o \in Orders(new_paths) : TRUE
             st2 == WatchLoop(new_order, 1, old_paths, st1)
         IN [watcher_opt |-> <<new_paths>>, calls |-> st2.calls,
             watched |-> st2.watched]

(***************************************************************************)
(* The watcher subscription: new_debouncer, then NotifyWatcher is sent.    *)
(***************************************************************************)
NewDebouncer(ok) ==
    /\ pc = "idle"
    /\ debouncer = "starting"
    /\ debouncer' = IF ok THEN "sent" ELSE "failed"
    /\ UNCHANGED <<surface_vars, tab_vars, watcher_opt, watched, pc, last>>
    /\ UNCHANGED subscription_vars

(***************************************************************************)
(* Message::NotifyWatcher                                                  *)
(***************************************************************************)
NotifyWatcher(some, fails) ==
    /\ pc = "idle"
    /\ IF some
       THEN /\ debouncer = "sent"
            /\ LET r == UpdateWatcher(<<{}>>, location, watched, <<>>, fails) IN
                /\ watcher_opt' = r.watcher_opt
                /\ watched' = r.watched
                /\ last' = [NoLast EXCEPT !.msg = "NotifyWatcher", !.calls = r.calls]
            /\ debouncer' = "adopted"
       ELSE /\ fails = {}
            /\ last' = [NoLast EXCEPT !.msg = "NotifyWatcherNone"]
            /\ UNCHANGED watcher_vars
    /\ pc' = "handled"
    /\ UNCHANGED <<surface_vars, tab_vars>>
    /\ UNCHANGED subscription_vars

(***************************************************************************)
(* Message::NotifyEvents.  The debouncer's callback sends the batches; the *)
(* backend reports events once a watch is registered.  What a batch holds  *)
(* is not restricted to what the callback's filter lets through.           *)
(***************************************************************************)
EventKinds == {"Access", "Create", "Remove", "ModifyData", "ModifyMetadata"}

\* the events of the batches: an event of each kind on a.txt, a create and a
\* data-modify on h.txt, and a rename (Modify(Name)) with its two paths
Events ==
    {[kind |-> k, paths |-> <<FileA>>] : k \in EventKinds}
    \cup {[kind |-> k, paths |-> <<FileH>>] : k \in {"Create", "ModifyData"}}
    \cup {[kind |-> "ModifyName", paths |-> <<FileH, FileA>>]}

\* fs::metadata is called for the Modify(Data) and Modify(Metadata) events only
MetadataReads(events) ==
    IF \E i \in 1..Len(events) : events[i].kind \in {"ModifyMetadata", "ModifyData"}
    THEN MetadataResults
    ELSE {"-"}

Batches == UNION {[1..n -> Events] : n \in 1..MaxBatch}

\* lines 329-348: every item whose path is event_path gets its metadata reloaded
ReloadItems(items, event_path, md) ==
    {IF it.path = event_path /\ md # "Err" THEN [it EXCEPT !.metadata = md] ELSE it :
        it \in items}

\* one entry per item whose metadata the handler went to reload
Reloads(items, event_path) ==
    [n \in 1..Cardinality({it \in items : it.path = event_path}) |-> event_path]

\* the loop over an event's paths, were only Modify(Metadata) reloaded in place
\* and Modify(Data) left to the catch-all arm
RECURSIVE EventPathsLoopDataRescans(_, _, _, _, _)
EventPathsLoopDataRescans(acc, event, j, path, md) ==
    IF j > Len(event.paths) THEN acc
    ELSE LET event_path == event.paths[j] IN
         IF ~StartsWith(event_path, path)
         THEN EventPathsLoopDataRescans(acc, event, j + 1, path, md)
         ELSE IF event.kind \in {"ModifyMetadata"}
         THEN IF acc.items_opt = <<>>
              THEN EventPathsLoopDataRescans(acc, event, j + 1, path, md)
              ELSE EventPathsLoopDataRescans(
                     [acc EXCEPT !.items_opt = <<ReloadItems(@[1], event_path, md)>>,
                                 !.patches = @ \o Reloads(acc.items_opt[1], event_path)],
                     event, j + 1, path, md)
         ELSE [acc EXCEPT !.contains_change = TRUE]

RECURSIVE EventPathsLoop(_, _, _, _, _)
EventPathsLoop(acc, event, j, path, md) ==
    IF j > Len(event.paths) THEN acc
    ELSE LET event_path == event.paths[j] IN
         IF ~StartsWith(event_path, path)
         THEN EventPathsLoop(acc, event, j + 1, path, md)
         ELSE IF event.kind \in {"ModifyMetadata", "ModifyData"}
         THEN IF acc.items_opt = <<>>
              THEN EventPathsLoop(acc, event, j + 1, path, md)
              ELSE EventPathsLoop(
                     [acc EXCEPT !.items_opt = <<ReloadItems(@[1], event_path, md)>>,
                                 !.patches = @ \o Reloads(acc.items_opt[1], event_path)],
                     event, j + 1, path, md)
         ELSE \* any other event: contains_change = true; break
              [acc EXCEPT !.contains_change = TRUE]

\* the loop over the events, were contains_change declared inside it, so that
\* the last event alone decides
RECURSIVE EventsLoopFlagPerEvent(_, _, _, _, _)
EventsLoopFlagPerEvent(acc, events, i, path, md) ==
    IF i > Len(events) THEN acc
    ELSE EventsLoopFlagPerEvent(
            EventPathsLoop([acc EXCEPT !.contains_change = FALSE], events[i], 1, path, md),
            events, i + 1, path, md)

RECURSIVE EventsLoop(_, _, _, _, _)
EventsLoop(acc, events, i, path, md) ==
    IF i > Len(events) THEN acc
    ELSE EventsLoop(EventPathsLoop(acc, events[i], 1, path, md), events, i + 1, path, md)

NotifyEvents(events, md) ==
    /\ pc = "idle"
    /\ debouncer = "adopted" /\ watched # {}
    /\ LET acc0 == [items_opt |-> items_opt, patches |-> <<>>, contains_change |-> FALSE]
           r == IF location.tag = "Path"
                THEN EventsLoop(acc0, events, 1, location.path, md)
                ELSE acc0
       IN /\ r.contains_change => Len(rescans) < MaxRescans
          /\ items_opt' = r.items_opt
          /\ rescans' = IF r.contains_change THEN RescanTab(rescans, location)
                        ELSE rescans
          /\ newest_delivered' = IF r.contains_change THEN FALSE ELSE newest_delivered
          /\ last' = [NoLast EXCEPT !.msg = "NotifyEvents", !.events = events,
                                    !.md = md, !.patches = r.patches,
                                    !.cmds = IF r.contains_change THEN <<RescanCmd>>
                                             ELSE <<>>]
    /\ pc' = "handled"
    /\ UNCHANGED <<surface_vars, watcher_vars, location, items_from>>
    /\ UNCHANGED subscription_vars

(***************************************************************************)
(* Message::TabRescan: rescan i finished; its scan listed `entries`.       *)
(***************************************************************************)
\* Tab::set_items
SetItems(items) == <<items>>

\* TabRescan, were the scanned items only taken while nothing is listed yet
TabRescanFirstOnly(i, entries) ==
    /\ pc = "idle"
    /\ i \in 1..Len(rescans)
    /\ entries \subseteq Children(rescans[i].path)
    /\ items_opt' = IF items_opt = <<>> THEN SetItems(ScanItems(entries)) ELSE items_opt
    /\ items_from' = IF items_opt = <<>> THEN <<rescans[i]>> ELSE items_from
    /\ rescans' = RemoveAt(rescans, i)
    /\ last' = [NoLast EXCEPT !.msg = "TabRescan", !.scanned = rescans[i]]
    /\ pc' = "handled"
    /\ UNCHANGED <<surface_vars, watcher_vars, location>>
    /\ UNCHANGED subscription_vars
    /\ newest_delivered' = (newest_delivered \/ i = Len(rescans))

TabRescan(i, entries) ==
    /\ pc = "idle"
    /\ i \in 1..Len(rescans)
    /\ entries \subseteq Children(rescans[i].path)
    /\ items_opt' = SetItems(ScanItems(entries))
    /\ items_from' = <<rescans[i]>>
    /\ rescans' = RemoveAt(rescans, i)
    /\ last' = [NoLast EXCEPT !.msg = "TabRescan", !.scanned = rescans[i]]
    /\ pc' = "handled"
    /\ UNCHANGED <<surface_vars, watcher_vars, location>>
    /\ UNCHANGED subscription_vars
    /\ newest_delivered' = (newest_delivered \/ i = Len(rescans))

\* RescanFailed, were the failure reported as a TabRescan without items
RescanFailedClearsItems(i) ==
    /\ pc = "idle"
    /\ i \in 1..Len(rescans)
    /\ rescans' = RemoveAt(rescans, i)
    /\ items_opt' = SetItems({})
    /\ items_from' = <<rescans[i]>>
    /\ last' = [NoLast EXCEPT !.msg = "RescanFailed", !.scanned = rescans[i]]
    /\ pc' = "handled"
    /\ UNCHANGED <<surface_vars, watcher_vars, location>>
    /\ UNCHANGED subscription_vars
    /\ UNCHANGED newest_delivered

\* the blocking task of rescan i did not complete: message::none()
RescanFailed(i) ==
    /\ pc = "idle"
    /\ i \in 1..Len(rescans)
    /\ rescans' = RemoveAt(rescans, i)
    /\ last' = [NoLast EXCEPT !.msg = "RescanFailed", !.scanned = rescans[i]]
    /\ pc' = "handled"
    /\ UNCHANGED <<surface_vars, watcher_vars, location, items_opt, items_from>>
    /\ UNCHANGED subscription_vars
    /\ UNCHANGED newest_delivered

(***************************************************************************)
(* Message::TabMessage: Tab::update moves the tab to another location.     *)
(* None of the tab commands the handler supports rescans or reconciles     *)
(* the watcher.  Whether the tab drops its items is left open.             *)
(***************************************************************************)
TabUpdate(new_location, clear) ==
    /\ location' = new_location
    /\ items_opt' = IF clear THEN <<>> ELSE items_opt
    /\ items_from' = IF clear THEN <<>> ELSE items_from

TabMessage(new_location, clear) ==
    /\ pc = "idle"
    /\ new_location # location
    /\ TabUpdate(new_location, clear)
    /\ last' = [NoLast EXCEPT !.msg = "TabMessage"]
    /\ pc' = "handled"
    /\ UNCHANGED <<surface_vars, watcher_vars, rescans>>
    /\ UNCHANGED subscription_vars
    /\ UNCHANGED newest_delivered

(***************************************************************************)
(* The watcher subscription's channel and the debouncer's callback.  The   *)
(* callback runs on the debouncer's thread with the debounced events (or   *)
(* an error), retains the events worth a message and sends them as one     *)
(* NotifyEvents message with block_on(output.send(..)): the thread waits   *)
(* in the send until the channel has room.                                 *)
(***************************************************************************)
\* subscription::channel(.., 100, ..): the messages the channel buffers
ChannelCapacity == 100

\* how many events one debounced result carries
MaxDebounced == 3

\* notify::event::MetadataKind
MetadataKinds == {"Any", "WriteTime", "AccessTime", "Permissions"}

\* the events the debouncer reports, all on a.txt; meta is the MetadataKind of
\* a Modify(Metadata(_)) event
RawEvents ==
    {[kind |-> k, meta |-> "-", paths |-> <<FileA>>] :
        k \in {"Access", "Create", "Remove", "ModifyData"}}
    \cup {[kind |-> "ModifyMetadata", meta |-> m, paths |-> <<FileA>>] :
            m \in MetadataKinds}

\* DebounceEventResult: Ok(events) or Err(errors)
DebounceOk(events) == [ok |-> TRUE, events |-> events]

DebounceErr == [ok |-> FALSE, events |-> <<>>]

DebounceResults ==
    {DebounceErr}
    \cup {DebounceOk(events) : events \in UNION {[1..n -> RawEvents] : n \in 0..MaxDebounced}}

\* the closure of events.retain, were Modify(Metadata(_)) kept whatever its kind
RetainEventAnyMetadata(event) ==
    IF event.kind = "Access" THEN FALSE
    ELSE TRUE

\* the closure of events.retain (lines 466-483)
RetainEvent(event) ==
    IF event.kind = "Access" THEN FALSE
    ELSE IF event.kind = "ModifyMetadata" /\ event.meta # "Any" /\ event.meta # "WriteTime"
    THEN FALSE
    ELSE TRUE

\* Vec::retain: the events the closure accepts, in their order
Retain(events) == SelectSeq(events, RetainEvent)

\* the callback is called with events_res: it retains, and goes on to send
\* when something is left
DebouncerCallback(events_res) ==
    /\ callback.pc = "ready"
    /\ debouncer = "adopted" /\ watched # {}
    /\ IF events_res.ok /\ Retain(events_res.events) # <<>>
       THEN callback' = [pc |-> "sending", events_res |-> <<events_res>>,
                         events |-> Retain(events_res.events)]
       ELSE callback' = [pc |-> "returned", events_res |-> <<events_res>>,
                         events |-> <<>>]
    /\ UNCHANGED <<surface_vars, tab_vars, watcher_vars, pc, last, channel>>

\* block_on(output.send(Message::NotifyEvents(events))) completes: the
\* channel had room
CallbackSend ==
    /\ callback.pc = "sending"
    /\ Len(channel) < ChannelCapacity
    /\ channel' = Append(channel, callback.events)
    /\ callback' = [callback EXCEPT !.pc = "returned"]
    /\ UNCHANGED <<surface_vars, tab_vars, watcher_vars, pc, last>>

\* the callback returns to the debouncer's thread
CallbackReturn ==
    /\ callback.pc = "returned"
    /\ callback' = CallbackReady
    /\ UNCHANGED <<surface_vars, tab_vars, watcher_vars, pc, last, channel>>

\* the runtime takes the oldest message off the channel to hand it to
\* App::update
ChannelRecv ==
    /\ channel # <<>>
    /\ channel' = Tail(channel)
    /\ UNCHANGED <<surface_vars, tab_vars, watcher_vars, pc, last, callback>>

(***************************************************************************)
(* The loop is ready for the next message.                                 *)
(***************************************************************************)
Return ==
    /\ pc = "handled"
    /\ pc' = "idle"
    /\ last' = NoLast
    /\ UNCHANGED <<surface_vars, tab_vars, watcher_vars>>
    /\ UNCHANGED subscription_vars

NextOutputs ==
    \/ \E output \in Outputs, info \in OutputInfos : OutputCreated(output, info)
    \/ \E output \in Outputs : OutputRemoved(output)
    \/ \E output \in Outputs, info \in OutputInfos : OutputInfoUpdate(output, info)
    \/ Return

NextTab ==
    \/ \E events \in Batches :
            \E md \in MetadataReads(events) : NotifyEvents(events, md)
    \/ \E i \in 1..MaxRescans, entries \in SUBSET Files : TabRescan(i, entries)
    \/ \E i \in 1..MaxRescans : RescanFailed(i)
    \/ \E dir \in Dirs, clear \in BOOLEAN : TabMessage(LocationPath(dir), clear)
    \/ \E ok \in BOOLEAN : NewDebouncer(ok)
    \/ \E some \in BOOLEAN, fails \in SUBSET Dirs : NotifyWatcher(some, fails)
    \/ Return

\* every message but the watch batches
NextLoop ==
    \/ \E output \in Outputs, info \in OutputInfos : OutputCreated(output, info)
    \/ \E output \in Outputs : OutputRemoved(output)
    \/ \E output \in Outputs, info \in OutputInfos : OutputInfoUpdate(output, info)
    \/ \E i \in 1..MaxRescans, entries \in SUBSET Files : TabRescan(i, entries)
    \/ \E i \in 1..MaxRescans : RescanFailed(i)
    \/ \E dir \in Dirs, clear \in BOOLEAN : TabMessage(LocationPath(dir), clear)
    \/ \E ok \in BOOLEAN : NewDebouncer(ok)
    \/ \E some \in BOOLEAN, fails \in SUBSET Dirs : NotifyWatcher(some, fails)
    \/ Return

Next == NextOutputs \/ NextTab

\* the whole loop
Spec == Init /\ [][Next]_vars

\* the loop without its watch batches
SpecLoop == Init /\ [][NextLoop]_vars

\* the output registry alone
SpecOutputs == Init /\ [][NextOutputs]_vars

(***************************************************************************)
(* update_watcher on its own: it is run with any recorded watch set and    *)
(* any location, again and again.                                          *)
(***************************************************************************)
InitUpdateWatcher ==
    /\ surface_ids = [o \in Outputs |-> NoSurface]
    /\ surface_names = <<>>
    /\ next_surface_id = 1
    /\ created_ids = {}
    /\ live_surfaces = {}
    /\ attached = {}
    /\ location \in {LocationPath(dir) : dir \in Dirs} \cup {LocationTrash}
    /\ items_opt = <<>>
    /\ items_from = <<>>
    /\ rescans = <<>>
    /\ newest_delivered = TRUE
    /\ \E old_paths \in SUBSET Paths :
        /\ watcher_opt = <<old_paths>>
        /\ watched = old_paths
    /\ debouncer = "adopted"
    /\ pc = "idle"
    /\ last = NoLast
    /\ channel = <<>>
    /\ callback = CallbackReady

CallUpdateWatcher(order, fails) ==
    /\ pc = "idle"
    /\ watcher_opt # <<>>
    /\ order \in Orders(watcher_opt[1])
    /\ LET r == UpdateWatcher(watcher_opt, location, watched, order, fails) IN
        /\ watcher_opt' = r.watcher_opt
        /\ watched' = r.watched
        /\ last' = [NoLast EXCEPT !.msg = "update_watcher", !.calls = r.calls]
    /\ pc' = "handled"
    /\ UNCHANGED <<surface_vars, tab_vars, debouncer>>
    /\ UNCHANGED subscription_vars

NextUpdateWatcher ==
    \/ \E fails \in SUBSET Paths :
            \E order \in Orders(IF watcher_opt = <<>> THEN {} ELSE watcher_opt[1]) :
                CallUpdateWatcher(order, fails)
    \/ Return

SpecUpdateWatcher == InitUpdateWatcher /\ [][NextUpdateWatcher]_vars

\* the tab, its rescans and its watcher alone
SpecTab == Init /\ [][NextTab]_vars

(***************************************************************************)
(* The subscription on its own, once the watcher is handed over and the    *)
(* first rescan delivered.                                                 *)
(***************************************************************************)
InitSubscription ==
    /\ surface_ids = [o \in Outputs |-> NoSurface]
    /\ surface_names = <<>>
    /\ next_surface_id = 1
    /\ created_ids = {}
    /\ live_surfaces = {}
    /\ attached = {}
    /\ location = LocationPath(DesktopDir)
    /\ items_opt = <<ScanItems({FileA, FileB})>>
    /\ items_from = <<location>>
    /\ rescans = <<>>
    /\ newest_delivered = TRUE
    /\ watcher_opt = <<{DesktopDir}>>
    /\ watched = {DesktopDir}
    /\ debouncer = "adopted"
    /\ pc = "idle"
    /\ last = NoLast
    /\ channel = <<>>
    /\ callback = CallbackReady

\* the callback is called with any result, each time the loop has taken the
\* message before
NextDebouncer ==
    \/ \E events_res \in DebounceResults :
            channel = <<>> /\ DebouncerCallback(events_res)
    \/ CallbackSend
    \/ CallbackReturn
    \/ ChannelRecv

SpecDebouncer == InitSubscription /\ [][NextDebouncer]_vars

\* the callback is called with a create event again and again, whether or
\* not the loop takes the messages
NextChannel ==
    \/ DebouncerCallback(DebounceOk(<<[kind |-> "Create", meta |-> "-", paths |-> <<FileA>>]>>))
    \/ CallbackSend
    \/ CallbackReturn
    \/ ChannelRecv

SpecChannel == InitSubscription /\ [][NextChannel]_vars

(***************************************************************************)
(* End to end: a.txt and b.txt are listed and watched, c.txt has been      *)
(* created.  Every rescan completes and lists the three files; a finished  *)
(* rescan's message is handled in the end, and every handler returns.      *)
(***************************************************************************)
EndToEndEvents ==
    {[kind |-> "Create", paths |-> <<FileC>>],
     [kind |-> "ModifyData", paths |-> <<FileA>>],
     [kind |-> "ModifyData", paths |-> <<FileC>>]}

EndToEndBatches == UNION {[1..n -> EndToEndEvents] : n \in 1..MaxBatch}

NextEndToEnd ==
    \/ \E events \in EndToEndBatches :
            \E md \in MetadataReads(events) : NotifyEvents(events, md)
    \/ \E i \in 1..MaxRescans : TabRescan(i, Children(DesktopDir))
    \/ Return

SpecEndToEnd ==
    /\ InitSubscription
    /\ [][NextEndToEnd]_vars
    /\ SF_vars(\E i \in 1..MaxRescans : TabRescan(i, Children(DesktopDir)))
    /\ WF_vars(Return)

(***************************************************************************)
(* The output registry (C1-C4).                                            *)
(***************************************************************************)
\* C1: after any sequence of attached/removed notifications the number of
\* live surfaces (created by a command and not destroyed by one) equals the
\* number of attached outputs, also after an attached notification for an
\* output that is already registered.
C1_LiveSurfacesEqualAttachedOutputs ==
    Cardinality(live_surfaces) = Cardinality(attached)

\* C2: an attached notification for an output that is already registered
\* keeps the surface id mapped to the output, and creates no second surface
\* for it.
C2_DuplicateAttachKeepsMapping ==
    [][(last'.msg = "OutputCreated" /\ surface_ids[last'.output] # NoSurface)
        => /\ surface_ids'[last'.output] = surface_ids[last'.output]
           /\ live_surfaces' = live_surfaces]_vars

\* C3: a removed notification for an output that is not in the
\* output-to-surface map returns no destroy command (no command at all) and
\* leaves surface_ids, surface_names, the items and the watch set as they
\* were.
C3_RemoveUnknownOutputIsNoOp ==
    [][(last'.msg = "OutputRemoved" /\ surface_ids[last'.output] = NoSurface)
        => /\ CmdCount(last'.cmds, "destroy_layer_surface") = 0
           /\ last'.cmds = <<>>
           /\ UNCHANGED <<surface_ids, surface_names, live_surfaces, items_opt,
                          watcher_opt, watched>>]_vars

\* C3 witness: a removed notification was handled for an output without a
\* surface while another output had one, items were listed and a path was
\* watched.
C3_Witness ==
    /\ pc = "handled"
    /\ last.msg = "OutputRemoved"
    /\ last.cmds = <<>>
    /\ surface_ids[last.output] = NoSurface
    /\ \E o \in Outputs : surface_ids[o] # NoSurface
    /\ DOMAIN surface_names # {}
    /\ items_opt # <<>> /\ items_opt[1] # {}
    /\ watched # {}

\* C4: every get_layer_surface command carries a surface id that no earlier
\* get_layer_surface command of the run carried.
C4_SurfaceIdsNeverReused ==
    [][last'.msg = "OutputCreated"
        => /\ Len(last'.cmds) = 1
           /\ last'.cmds[1].cmd = "get_layer_surface"
           /\ last'.cmds[1].id \notin created_ids
           /\ last'.cmds[1].id = surface_ids'[last'.output]]_vars

\* C4 witness: an output was attached, removed and attached again; the
\* surface of the first attachment is gone and the new one has another id.
C4_Witness ==
    /\ pc = "handled"
    /\ last.msg = "OutputCreated"
    /\ attached = {last.output}
    /\ Cardinality(created_ids) = 2
    /\ live_surfaces = {last.cmds[1].id}
    /\ created_ids \ live_surfaces # {}

(***************************************************************************)
(* Rescans and watch batches (C5-C9).                                      *)
(***************************************************************************)
ModifyKinds == {"ModifyData", "ModifyMetadata"}

\* the paths of a batch, event by event
RECURSIVE BatchPaths(_)
BatchPaths(events) ==
    IF events = <<>> THEN <<>> ELSE Head(events).paths \o BatchPaths(Tail(events))

BatchPathSet(events) == {BatchPaths(events)[k] : k \in 1..Len(BatchPaths(events))}

\* the handler returned no command and left the rescans in flight alone
NoRescanIssued == last'.cmds = <<>> /\ rescans' = rescans

\* the handler returned the rescan command, for the current location
RescanIssued == last'.cmds = <<RescanCmd>> /\ rescans' = Append(rescans, location)

\* C5: a rescan is in flight for location A, the location is now B and a
\* rescan for B was issued after A's; when A's result arrives it is discarded:
\* the items are not replaced by it.
C5_StaleRescanResultDiscarded ==
    [][(/\ last'.msg = "TabRescan"
        /\ last'.scanned # location
        /\ \E i, j \in 1..Len(rescans) :
            /\ i < j
            /\ rescans[i] = last'.scanned
            /\ rescans[j] = location
            /\ rescans' = RemoveAt(rescans, i))
        => items_opt' = items_opt]_vars

\* C6: in every reachable state at most one rescan is in flight.
C6_AtMostOneRescanInFlight == Len(rescans) <= 1

\* a batch of data-modify and metadata-modify events only, every path of
\* which is the path of a listed item
PatchOnlyBatch(events) ==
    /\ items_opt # <<>>
    /\ \A i \in 1..Len(events) : events[i].kind \in ModifyKinds
    /\ BatchPathSet(events) \subseteq ItemPaths(items_opt)

\* every path of the batch lies under the current location
BatchUnderLocation(events) ==
    /\ location.tag = "Path"
    /\ \A p \in BatchPathSet(events) : StartsWith(p, location.path)

\* one reload per event path, for the item of that path; the items of other
\* paths untouched; the same item paths and count; no rescan
PatchesApplied ==
    /\ last'.patches = BatchPaths(last'.events)
    /\ items_opt' # <<>>
    /\ items_opt'[1] =
          {IF it.path \in BatchPathSet(last'.events) /\ last'.md # "Err"
           THEN [it EXCEPT !.metadata = last'.md] ELSE it : it \in items_opt[1]}
    /\ ItemPaths(items_opt') = ItemPaths(items_opt)
    /\ Cardinality(items_opt'[1]) = Cardinality(items_opt[1])
    /\ NoRescanIssued

\* C7 as stated: a batch of only data-modify or metadata-modify events on
\* paths of listed items patches exactly the matching items, one patch per
\* event, issues no rescan and keeps the item paths, the item count and the
\* rescans in flight.
C7_PatchOnlyBatchPatchesListedItems ==
    [][(last'.msg = "NotifyEvents" /\ PatchOnlyBatch(last'.events))
        => PatchesApplied]_vars

\* C7 amended: the same, for a batch whose paths also lie under the current
\* location.
C7_PatchOnlyBatchUnderLocationPatches ==
    [][(/\ last'.msg = "NotifyEvents"
        /\ PatchOnlyBatch(last'.events)
        /\ BatchUnderLocation(last'.events))
        => PatchesApplied]_vars

\* C7 witness: a.txt and b.txt are listed and a data-modify event on a.txt
\* was handled: a.txt carries the reloaded metadata, b.txt does not, and no
\* rescan was issued.
C7_Witness ==
    /\ pc = "handled"
    /\ last.msg = "NotifyEvents"
    /\ last.events = <<[kind |-> "ModifyData", paths |-> <<FileA>>]>>
    /\ last.patches = <<FileA>>
    /\ last.cmds = <<>>
    /\ location = LocationPath(DesktopDir)
    /\ items_opt = <<{[path |-> FileA, metadata |-> "m1"],
                      [path |-> FileB, metadata |-> "m0"]}>>

\* C8: a batch with a create or a remove event on a path under the current
\* location makes the handler issue a rescan, whatever else the batch holds
\* and wherever the event stands in it.
C8_CreateOrRemoveUnderLocationRescans ==
    [][(/\ last'.msg = "NotifyEvents"
        /\ location.tag = "Path"
        /\ \E i \in 1..Len(last'.events) :
            /\ last'.events[i].kind \in {"Create", "Remove"}
            /\ \E j \in 1..Len(last'.events[i].paths) :
                StartsWith(last'.events[i].paths[j], location.path))
        => RescanIssued]_vars

\* C8 witness: a batch whose first event is a remove under the location and
\* whose second is a data-modify on a listed item was handled, and the rescan
\* command returned.
C8_Witness ==
    /\ pc = "handled"
    /\ last.msg = "NotifyEvents"
    /\ last.events = <<[kind |-> "Remove", paths |-> <<FileA>>],
                       [kind |-> "ModifyData", paths |-> <<FileA>>]>>
    /\ location = LocationPath(DesktopDir)
    /\ FileA \in ItemPaths(items_opt)
    /\ last.cmds = <<RescanCmd>>
    /\ Len(rescans) = 2

\* C9: a batch of access events only makes the handler reload no metadata
\* and issue no rescan, also when the paths lie under the current location.
C9_AccessOnlyBatchIsIgnored ==
    [][(/\ last'.msg = "NotifyEvents"
        /\ \A i \in 1..Len(last'.events) : last'.events[i].kind = "Access")
        => /\ last'.patches = <<>>
           /\ items_opt' = items_opt
           /\ NoRescanIssued]_vars

(***************************************************************************)
(* The watch-set reconciliation (C10).                                     *)
(***************************************************************************)
CallCount(calls, op, path) ==
    Cardinality({i \in 1..Len(calls) : calls[i] = WatchCall(op, path)})

\* C10: update_watcher, run with the recorded watch set Old and the target
\* set New (the current location when it is a path, else nothing), calls
\* unwatch once for each path of Old \ New and for no other path, watch once
\* for each path of New \ Old and for no other path, makes no call when
\* Old = New, and records New.
C10_UpdateWatcherCallsSymmetricDifference ==
    [][(last'.msg = "update_watcher" /\ watcher_opt # <<>>)
        => LET Old == watcher_opt[1]
               New == NewPaths(location)
               calls == last'.calls
           IN /\ \A p \in Paths :
                    /\ CallCount(calls, "unwatch", p) = IF p \in Old \ New THEN 1 ELSE 0
                    /\ CallCount(calls, "watch", p) = IF p \in New \ Old THEN 1 ELSE 0
              /\ Len(calls) = Cardinality(Old \ New) + Cardinality(New \ Old)
              /\ (Old = New => calls = <<>>)
              /\ watcher_opt' = <<New>>]_vars

\* C10 witness: the watch set went from {/home} to {/home/Desktop} with one
\* unwatch(/home) and one watch(/home/Desktop).
C10_Witness ==
    /\ pc = "handled"
    /\ last.msg = "update_watcher"
    /\ last.calls = <<WatchCall("unwatch", HomeDir), WatchCall("watch", DesktopDir)>>
    /\ watcher_opt = <<{DesktopDir}>>
    /\ watched = {DesktopDir}

(***************************************************************************)
(* The watch set and the watcher hand-off (C11, C12).                      *)
(***************************************************************************)
\* C11: in every reachable state in which a directory location is displayed
\* the paths registered with the watch backend are exactly the current
\* directory location, from init onward, across the hand-off of the watcher
\* and when a watch or unwatch call fails.
C11_WatchSetIsCurrentLocation ==
    location.tag = "Path" => watched = {location.path}

\* C12: handling NotifyWatcher with a watcher adopts it, registers a watch on
\* the current location and then issues a rescan; no rescan was issued
\* before that watch was registered.
C12_NotifyWatcherReconcilesThenRescans ==
    [][last'.msg = "NotifyWatcher"
        => /\ watcher_opt' = <<NewPaths(location)>>
           /\ \A p \in NewPaths(location) : WatchCall("watch", p) \in
                {last'.calls[k] : k \in 1..Len(last'.calls)}
           /\ RescanIssued
           /\ rescans = <<>>
           /\ items_opt = <<>>]_vars

(***************************************************************************)
(* The debouncer's callback (C13).                                         *)
(***************************************************************************)
\* an event the callback must not pass on: an access event, or a metadata
\* change of a kind other than Any and WriteTime
NotWorthAMessage(event) ==
    \/ event.kind = "Access"
    \/ event.kind = "ModifyMetadata" /\ event.meta \notin {"Any", "WriteTime"}

\* the positions of the events of the input that are to be kept
KeptPositions(events) == {i \in 1..Len(events) : ~NotWorthAMessage(events[i])}

\* the k-th smallest of a set of positions
NthPosition(positions, k) ==
    CHOOSE i \in positions : Cardinality({j \in positions : j < i}) = k - 1

\* C13: every NotifyEvents batch the callback emits is non-empty and holds
\* no access event and no metadata-change event of a kind other than Any and
\* WriteTime; every other event of the debounced input is in it, in the
\* original order; and when nothing is left (or the result is an error) no
\* message is emitted.
C13_CallbackEmitsFilteredNonEmptyBatch ==
    [][/\ (callback.pc = "ready" /\ callback'.pc # "ready")
            => LET events_res == callback'.events_res[1]
                   kept == KeptPositions(events_res.events)
               IN /\ channel' = channel
                  /\ IF events_res.ok /\ kept # {}
                     THEN /\ callback'.pc = "sending"
                          /\ Len(callback'.events) = Cardinality(kept)
                          /\ \A k \in 1..Len(callback'.events) :
                                callback'.events[k] =
                                    events_res.events[NthPosition(kept, k)]
                     ELSE callback'.pc = "returned"
       /\ (callback.pc = "sending" /\ callback'.pc # "sending")
            => /\ channel' = Append(channel, callback.events)
               /\ callback.events # <<>>
               /\ \A k \in 1..Len(callback.events) :
                    ~NotWorthAMessage(callback.events[k])
       /\ Len(channel') > Len(channel) => callback.pc = "sending"]_vars

\* C13 witness: the callback got a change of the modification time, a change
\* of permissions and a create event, and sent the first and the third.
C13_Witness ==
    /\ callback.pc = "returned"
    /\ callback.events_res =
        <<DebounceOk(<<[kind |-> "ModifyMetadata", meta |-> "WriteTime", paths |-> <<FileA>>],
                       [kind |-> "ModifyMetadata", meta |-> "Permissions", paths |-> <<FileA>>],
                       [kind |-> "Create", meta |-> "-", paths |-> <<FileA>>]>>)>>
    /\ channel = <<<<[kind |-> "ModifyMetadata", meta |-> "WriteTime", paths |-> <<FileA>>],
                     [kind |-> "Create", meta |-> "-", paths |-> <<FileA>>]>>>>

(***************************************************************************)
(* Failed rescans, output names, the end-to-end listing (C14-C16).         *)
(***************************************************************************)
\* C14: when a rescan fails, no TabRescan is delivered for it (it is no
\* longer in flight and the items are not replaced), the items, their source
\* and the location are as they were, no command is returned and the loop
\* goes on to its next message.
C14_FailedRescanKeepsItems ==
    [][last'.msg = "RescanFailed"
        => /\ items_opt' = items_opt
           /\ items_from' = items_from
           /\ location' = location
           /\ Len(rescans') = Len(rescans) - 1
           /\ last'.cmds = <<>>
           /\ pc' = "handled"]_vars

\* C14 witness: a.txt and b.txt are listed, a later rescan of the location
\* failed and both are still listed, while another rescan is in flight.
C14_Witness ==
    /\ pc = "handled"
    /\ last.msg = "RescanFailed"
    /\ last.scanned = location
    /\ ItemPaths(items_opt) = {FileA, FileB}
    /\ Len(rescans) = 1

\* C15: an info_updated notification for a registered output, carrying a
\* name, makes that name the stored name of the output's surface and leaves
\* the output-to-surface map as it was.
C15_InfoUpdateStoresName ==
    [][(/\ last'.msg = "OutputInfoUpdate"
        /\ surface_ids[last'.output] # NoSurface
        /\ last'.info \in OutputNames)
        => /\ surface_ids[last'.output] \in DOMAIN surface_names'
           /\ surface_names'[surface_ids[last'.output]] = last'.info
           /\ surface_ids' = surface_ids]_vars

\* the handled batch held a create event for c.txt and the rescan command
\* was returned
CreateRescanIssued ==
    /\ pc = "handled"
    /\ last.msg = "NotifyEvents"
    /\ \E i \in 1..Len(last.events) :
        last.events[i] = [kind |-> "Create", paths |-> <<FileC>>]
    /\ last.cmds = <<RescanCmd>>

\* C16: with a.txt and b.txt listed, a batch with a create event for c.txt
\* under the location makes the handler issue a rescan, and once it is issued
\* the listed paths eventually are a.txt, b.txt and c.txt, the scanned
\* contents of the directory.
C16_CreateLeadsToRescannedListing ==
    /\ [][(/\ last'.msg = "NotifyEvents"
           /\ \E i \in 1..Len(last'.events) :
                last'.events[i] = [kind |-> "Create", paths |-> <<FileC>>])
            => RescanIssued]_vars
    /\ (CreateRescanIssued ~> ItemPaths(items_opt) = {FileA, FileB, FileC})

\* C16 witness: the run began with a.txt and b.txt listed; a rescan of the
\* location was delivered and a.txt, b.txt and c.txt are listed.
C16_Witness ==
    /\ pc = "handled"
    /\ last.msg = "TabRescan"
    /\ last.scanned = location
    /\ items_opt = <<ScanItems({FileA, FileB, FileC})>>
    /\ rescans = <<>>

(***************************************************************************)
(* The classification of a watch batch (C17, C18).                         *)
(***************************************************************************)
\* C17: a batch with a data-modify or metadata-modify event on a path that
\* lies under the current location and is the path of no listed item makes
\* the handler issue a rescan.
C17_ModifyOfUnlistedPathRescans ==
    [][(/\ last'.msg = "NotifyEvents"
        /\ location.tag = "Path"
        /\ \E i \in 1..Len(last'.events) :
            /\ last'.events[i].kind \in ModifyKinds
            /\ \E j \in 1..Len(last'.events[i].paths) :
                /\ StartsWith(last'.events[i].paths[j], location.path)
                /\ last'.events[i].paths[j] \notin ItemPaths(items_opt))
        => RescanIssued]_vars

\* event i of the batch forces a rescan: it is no data-modify or
\* metadata-modify event and one of its paths lies under the location
ForcesRescan(events, i) ==
    /\ events[i].kind \notin ModifyKinds
    /\ \E j \in 1..Len(events[i].paths) : StartsWith(events[i].paths[j], location.path)

\* the reloads due to the events before event f: one for each path of a
\* modify event that lies under the location and is the path of a listed item
ReloadsBefore(events, f) ==
    {<<i, j>> \in (1..Len(events)) \X (1..2) :
        /\ i < f
        /\ j <= Len(events[i].paths)
        /\ events[i].kind \in ModifyKinds
        /\ StartsWith(events[i].paths[j], location.path)
        /\ events[i].paths[j] \in ItemPaths(items_opt)}

\* C18: once an event of the batch forces a rescan, no metadata is reloaded
\* for any later event of the batch, data-modify events on listed paths
\* included: the reloads are those of the events before it.
C18_RescanShortCircuitsBatch ==
    [][(last'.msg = "NotifyEvents" /\ location.tag = "Path")
        => \A f \in 1..Len(last'.events) :
            (/\ ForcesRescan(last'.events, f)
             /\ \A i \in 1..(f - 1) : ~ForcesRescan(last'.events, i))
            => Len(last'.patches) = Cardinality(ReloadsBefore(last'.events, f))]_vars

(***************************************************************************)
(* The channel between the callback and the loop (C19).                    *)
(***************************************************************************)
\* C19: the callback never waits in its send on a full channel: when the
\* channel is full the notification is dropped and the callback returns,
\* whether or not the loop takes messages off the channel.
C19_CallbackNeverBlocksOnFullChannel ==
    ~(callback.pc = "sending" /\ Len(channel) >= ChannelCapacity)

(***************************************************************************)
(* Outputs and rescans are orthogonal (C20).                               *)
(***************************************************************************)
\* C20: whenever the loop waits for a message, the attached and the removed
\* notification of every output can be handled, whether or not rescans are
\* in flight (an attached notification as long as the run has a surface id
\* left); handling one takes effect in that step (the output is mapped to
\* the surface of the returned get_layer_surface command, or its mapping is
\* removed and its surface destroyed) and leaves the location, the items,
\* the watch set and the rescans in flight as they were.
C20_OutputEventsOrthogonalToRescans ==
    /\ [](pc = "idle"
            => \A output \in Outputs :
                /\ ENABLED OutputRemoved(output)
                /\ next_surface_id <= MaxSurfaceIds
                    => \A info \in OutputInfos : ENABLED OutputCreated(output, info))
    /\ [][last'.msg \in {"OutputCreated", "OutputRemoved"}
            => /\ UNCHANGED <<location, items_opt, items_from, rescans,
                              watcher_opt, watched>>
               /\ last'.msg = "OutputCreated"
                    => /\ surface_ids'[last'.output] # NoSurface
                       /\ last'.cmds =
                            <<GetLayerSurface(surface_ids'[last'.output], last'.output)>>
               /\ last'.msg = "OutputRemoved"
                    => /\ surface_ids'[last'.output] = NoSurface
                       /\ surface_ids[last'.output] # NoSurface
                            => last'.cmds =
                                <<DestroyLayerSurface(surface_ids[last'.output])>>]_vars

\* C20 witness: an attached notification was handled for the second output
\* while the first rescan was still in flight and the location was watched.
C20_Witness ==
    /\ pc = "handled"
    /\ last.msg = "OutputCreated"
    /\ \A output \in Outputs : surface_ids[output] # NoSurface
    /\ rescans = <<location>>
    /\ watched = {location.path}

(***************************************************************************)
(* The order in which rescan results arrive (C21).                         *)
(***************************************************************************)
\* C21: several rescans of the current location were in flight and the most
\* recently issued one has had its result delivered; when the result of an
\* earlier-issued one arrives last, it does not replace the items: with all
\* rescans completed the items are those of the most recently issued rescan.
C21_LatestIssuedRescanWins ==
    [][(/\ last'.msg = "TabRescan"
        /\ newest_delivered
        /\ last'.scanned = location
        /\ items_from = <<location>>
        /\ rescans' = <<>>)
        => items_opt' = items_opt]_vars

(***************************************************************************)
(* The surface names (C22).                                                *)
(***************************************************************************)
\* C22: in every reachable state every surface id with an entry in
\* surface_names is the surface id some output is mapped to in surface_ids:
\* no name survives for a surface that is no longer registered.
C22_NamesOnlyForRegisteredSurfaces ==
    \A surface_id \in DOMAIN surface_names :
        \E output \in Outputs : surface_ids[output] = surface_id

====
